---- MODULE Spec2Model ----
(***************************************************************************)
(* A model of OptunaFinetuning (optuna_through_config.py): construction    *)
(* and input validation, the per-trial resolution of the configured        *)
(* hyperparameters (_set_trial_params), the study loop of __call__ and the *)
(* aggregation of the top trials (_get_top_trials_param_ranges); the two   *)
(* decorators of _objective (decorators.py), statement by statement for    *)
(* two calls at once, and __call__ repeated on one tuner.                  *)
(***************************************************************************)
EXTENDS Integers, Sequences, FiniteSets, TLC

VARIABLES
    pc,                      \* position of the caller: new, ready, optimizing, done, raised, ...
    config,                  \* the parsed configuration file (self.config)
    metrics_to_optimize,     \* len(self.metrics_to_optimize)
    directions,              \* len(self.directions)
    n_trials,                \* self.n_trials
    top_percent_trials,      \* self.top_percent_trials
    optuna_hyperparameters,  \* self.optuna_hyperparameters
    frozen_hyperparameters,  \* self.frozen_hyperparameters
    trials_counter,          \* self.trials_counter
    printed,                 \* what _validate_input printed (the ValidationError), if anything
    study_trials,            \* study.trials, the engine's record of every trial
    optuna_parameters,       \* what the last _set_trial_params call returned
    raised,                  \* the exception that left the last call, if any
    tables,                  \* what _get_top_trials_param_ranges returned
    reported,                \* the trial numbers the last _objective call printed
    skipped,                 \* the numbers of this study's trials that an interrupt skipped
    runs,                    \* how many times __call__ has been entered
    counter_at_call,         \* self.trials_counter as the current __call__ found it
    calls,                   \* the _objective calls in flight on two threads
    hooks                    \* the key press handlers registered with the keyboard module

vars == <<pc, config, metrics_to_optimize, directions, n_trials, top_percent_trials,
          optuna_hyperparameters, frozen_hyperparameters, trials_counter, printed,
          study_trials, optuna_parameters, raised, tables,
          reported, skipped, runs, counter_at_call, calls, hooks>>

\* what only concurrent _objective calls use
threading == <<calls, hooks>>

----------------------------------------------------------------------------
(* Bounds *)

\* the largest n_trials of a study
MaxTrials == 2

\* the longest trial list handed to _get_top_trials_param_ranges on its own
MaxListed == 3

\* __call__ is entered at most MaxRuns times on one tuner
MaxRuns == 2

----------------------------------------------------------------------------
(* Python values: int, float (with an integral value) and str *)

PyInt(n) == [t |-> "int", n |-> n, s |-> ""]
PyFloat(n) == [t |-> "float", n |-> n, s |-> ""]
PyStr(s) == [t |-> "str", n |-> 0, s |-> s]

IsNumber(v) == v.t \in {"int", "float"}

\* Python's ==: numbers compare by value (1 == 1.0), a str never equals a number
PyEq(a, b) == IF IsNumber(a) /\ IsNumber(b) THEN a.n = b.n ELSE a = b

\* the decimal numerals of the small numbers the model uses
IntNumeral == [n \in 0..9 |-> <<"0", "1", "2", "3", "4", "5", "6", "7", "8", "9">>[n + 1]]
FloatNumeral == [n \in 0..9 |-> IntNumeral[n] \o ".0"]

\* str(param)
Str(v) ==
    CASE v.t = "int" -> PyStr(IntNumeral[v.n])
      [] v.t = "float" -> PyStr(FloatNumeral[v.n])
      [] OTHER -> v

\* float(trial_value) of a str succeeds only on a numeral
FloatParses(v) == \E n \in 0..9 : v.s \in {IntNumeral[n], FloatNumeral[n]}
Float(v) ==
    IF v.t = "str"
    THEN PyFloat(CHOOSE n \in 0..9 : v.s \in {IntNumeral[n], FloatNumeral[n]})
    ELSE PyFloat(v.n)

\* exceptions
NoError == [type |-> "none", msg |-> ""]
Exception(type, msg) == [type |-> type, msg |-> msg]

\* a dict is a function from its keys; the empty dict
EmptyDict == [k \in {} |-> PyInt(0)]
Keys(d) == DOMAIN d

----------------------------------------------------------------------------
(* The configuration file: OPTUNA_PARAMS and OPTUNA_FROZEN_PARAMS *)

ParamNames == {"lr", "bs"}

\* one (name, suggest_type, param_range, param_options) entry of OPTUNA_PARAMS
ParamSpec(name, suggest_type, param_range, param_options) ==
    [name |-> name, suggest_type |-> suggest_type,
     param_range |-> param_range, param_options |-> param_options]

\* the sampling kinds of the sample configurations with the range and options each comes with:
\* three the code and the engine handle, and two the trial object has no method for
KindPool ==
    { <<"suggest_grid", <<PyInt(1), PyStr("x")>>, EmptyDict>>,
      <<"suggest_categorical", <<PyStr("adam"), PyInt(2)>>, EmptyDict>>,
      <<"suggest_int", <<PyInt(1), PyInt(2)>>, [step |-> PyInt(1)]>>,
      <<"suggest_foo", <<PyInt(1), PyInt(2)>>, EmptyDict>>,
      <<"categorical", <<PyStr("adam"), PyInt(2)>>, EmptyDict>> }

SpecPool == { ParamSpec(nm, k[1], k[2], k[3]) : nm \in ParamNames, k \in KindPool }

Names(hyper) == { hyper[i].name : i \in DOMAIN hyper }

\* the OPTUNA_PARAMS sequences: every ordering of specs with pairwise different names
SpecLists ==
    UNION { { h \in [1..len -> SpecPool] : \A i, j \in 1..len : i # j => h[i].name # h[j].name }
            : len \in 0..Cardinality(ParamNames) }

\* the OPTUNA_FROZEN_PARAMS mappings: one shares the name lr with the specs
FrozenPool ==
    { EmptyDict,
      [seed |-> PyInt(42)],
      [lr |-> PyInt(7), seed |-> PyInt(42)] }

\* a key of the YAML document: absent, or present with a value
Absent(dflt) == [present |-> FALSE, value |-> dflt]
Present(v) == [present |-> TRUE, value |-> v]

ConfigPool ==
    { [OPTUNA_PARAMS |-> p, OPTUNA_FROZEN_PARAMS |-> f] :
        p \in {Absent(<<>>)} \cup { Present(h) : h \in SpecLists },
        f \in {Absent(EmptyDict)} \cup { Present(d) : d \in FrozenPool } }

\* self.config.get(key) as a condition: the key is there and its value is not empty
Truthy(entry) == entry.present /\ DOMAIN entry.value # {}

\* top_percent_trials as callers pass it: inside and outside [0, 100]
TopPercents == {-50, 0, 30, 50, 100, 150}

----------------------------------------------------------------------------
(* The trial object of the engine *)

\* the suggest methods a trial has
TrialCapabilities == {"suggest_categorical", "suggest_int", "suggest_float"}

\* 'categorical' in suggest_type, on the kinds of KindPool
ContainsCategorical(suggest_type) == suggest_type \in {"suggest_categorical", "categorical"}

NoAnswer == PyStr("<not asked>")

\* [str(param) for param in param_range]
StrRange(param_range) == [i \in DOMAIN param_range |-> Str(param_range[i])]

Range(seq) == { seq[i] : i \in DOMAIN seq }

\* what the trial may return for one spec
Answers(spec) ==
    CASE spec.suggest_type = "suggest_grid" -> Range(StrRange(spec.param_range))
      [] spec.suggest_type = "suggest_categorical" -> Range(spec.param_range)
      [] spec.suggest_type = "suggest_int" ->
            { PyInt(n) : n \in spec.param_range[1].n .. spec.param_range[2].n }
      [] spec.suggest_type = "suggest_float" ->
            { PyFloat(n) : n \in spec.param_range[1].n .. spec.param_range[2].n }
      [] OTHER -> {NoAnswer}

AllAnswers == UNION { Answers(sp) : sp \in SpecPool }

\* the trial's answers to the calls of one _set_trial_params, by position of the spec
TrialAnswers(hyper) ==
    { a \in [DOMAIN hyper -> AllAnswers] : \A i \in DOMAIN hyper : a[i] \in Answers(hyper[i]) }

----------------------------------------------------------------------------
(* _set_trial_params *)

\* optuna_parameters[key] = value
DictSet(d, key, value) == [k \in Keys(d) \cup {key} |-> IF k = key THEN value ELSE d[k]]

\* a frozen overlay that keeps the sampled value where the names collide
OverlayKeepsSampled(d, frozen) == [k \in Keys(d) \cup Keys(frozen) |-> IF k \in Keys(d) THEN d[k] ELSE frozen[k]]

\* for key, value in self.frozen_hyperparameters.items(): optuna_parameters[key] = value
Overlay(d, frozen) == [k \in Keys(d) \cup Keys(frozen) |-> IF k \in Keys(frozen) THEN frozen[k] ELSE d[k]]

\* getattr(trial, suggest_type) finds a method
HasAttr(suggest_type) == suggest_type \in TrialCapabilities

\* the loop over self.optuna_hyperparameters from position i on, with the dict built so far;
\* asked counts the suggestions the trial has recorded
RECURSIVE SetTrialParamsLoop(_, _, _, _)
SetTrialParamsLoop(hyper, answers, i, acc) ==
    IF i > Len(hyper)
    THEN [raised |-> NoError, params |-> acc, asked |-> Len(hyper)]
    ELSE LET spec == hyper[i]
             AttributeError == [raised |-> Exception("AttributeError", spec.suggest_type),
                                params |-> acc, asked |-> i - 1]
         IN
         IF spec.suggest_type = "suggest_grid"
         THEN \* suggest_categorical over the strings, then float(trial_value)
              IF FloatParses(answers[i])
              THEN SetTrialParamsLoop(hyper, answers, i + 1, DictSet(acc, spec.name, Float(answers[i])))
              ELSE [raised |-> Exception("ValueError", "could not convert string to float"),
                    params |-> acc, asked |-> i]
         ELSE IF ContainsCategorical(spec.suggest_type)
         THEN \* getattr(trial, suggest_type)(param_name, param_range)
              IF HasAttr(spec.suggest_type)
              THEN SetTrialParamsLoop(hyper, answers, i + 1, DictSet(acc, spec.name, answers[i]))
              ELSE AttributeError
         ELSE \* getattr(trial, suggest_type)(param_name, *param_range, **param_options)
              IF HasAttr(spec.suggest_type)
              THEN SetTrialParamsLoop(hyper, answers, i + 1, DictSet(acc, spec.name, answers[i]))
              ELSE AttributeError

SetTrialParams(hyper, frozen, answers) ==
    LET looped == SetTrialParamsLoop(hyper, answers, 1, EmptyDict) IN
    IF looped.raised # NoError
    THEN looped
    ELSE [looped EXCEPT !.params = IF Keys(frozen) # {} THEN Overlay(looped.params, frozen) ELSE looped.params]

\* trial.params, the engine's own record of what it suggested: the first asked specs
SuggestedParams(hyper, answers, asked) ==
    [nm \in { hyper[i].name : i \in 1..asked } |->
        answers[CHOOSE i \in 1..asked : hyper[i].name = nm]]

----------------------------------------------------------------------------
(* _get_top_trials_param_ranges *)

\* one trial of study.trials; empty values mark a trial without a result
Trial(number, params, values) == [number |-> number, params |-> params, values |-> values]

\* Python's < on two lists of numbers
RECURSIVE ListLess(_, _)
ListLess(a, b) ==
    IF b = <<>> THEN FALSE
    ELSE IF a = <<>> THEN TRUE
    ELSE IF Head(a) # Head(b) THEN Head(a) < Head(b)
    ELSE ListLess(Tail(a), Tail(b))

\* the step of a sort without reverse=True: t goes before the first trial greater than it
RECURSIVE InsertAscending(_, _)
InsertAscending(sorted, t) ==
    IF sorted = <<>> THEN <<t>>
    ELSE IF ListLess(t.values, Head(sorted).values)
         THEN <<t>> \o sorted
         ELSE <<Head(sorted)>> \o InsertAscending(Tail(sorted), t)

\* one step of sorted(..., key=values, reverse=True): t goes after everything not smaller
\* than it, so trials with equal values keep the order they had
RECURSIVE InsertDescending(_, _)
InsertDescending(sorted, t) ==
    IF sorted = <<>> THEN <<t>>
    ELSE IF ListLess(Head(sorted).values, t.values)
         THEN <<t>> \o sorted
         ELSE <<Head(sorted)>> \o InsertDescending(Tail(sorted), t)

RECURSIVE SortedReverse(_)
SortedReverse(trials) ==
    IF trials = <<>> THEN <<>>
    ELSE InsertDescending(SortedReverse(SubSeq(trials, 1, Len(trials) - 1)), trials[Len(trials)])

\* a filter that keeps the trials without values too
KeepsEveryTrial(t) == TRUE

\* [trial for trial in trials if trial.values]
HasValues(t) == t.values # <<>>
ExceptSkipped(trials) == SelectSeq(trials, HasValues)

\* int(x / 100) for an integer x: Python's int() cuts towards zero
IntOfHundredth(x) == IF x >= 0 THEN x \div 100 ELSE -((-x) \div 100)

\* int(len(sorted_trials) * self.top_percent_trials / 100)
TopN(len, percent) == IntOfHundredth(len * percent)

\* seq[:n], Python's slice: a negative n counts from the end
SliceTo(seq, n) ==
    IF n >= 0
    THEN SubSeq(seq, 1, IF n < Len(seq) THEN n ELSE Len(seq))
    ELSE SubSeq(seq, 1, IF Len(seq) + n > 0 THEN Len(seq) + n ELSE 0)

\* sorted_trials[:top_n] if top_n <= len(sorted_trials) else sorted_trials
TopTrials(trials, percent) ==
    LET sorted_trials == SortedReverse(ExceptSkipped(trials))
        top_n == TopN(Len(sorted_trials), percent)
    IN IF top_n <= Len(sorted_trials) THEN SliceTo(sorted_trials, top_n) ELSE sorted_trials

\* trial.params.items() goes through the parameters in this order
ItemsOrder == <<"lr", "bs">>
Items(params) == SelectSeq(ItemsOrder, LAMBDA nm : nm \in Keys(params))

\* param_ranges: the column names in the order they were added, and each column's list
NewParamRanges ==
    [keys |-> <<"trial_number", "best_trials">>,
     col |-> [c \in {"trial_number", "best_trials"} |-> <<>>]]

\* param_ranges[key].append(value), the list created first when the key is new
AppendTo(pr, key, value) ==
    [keys |-> IF key \in Keys(pr.col) THEN pr.keys ELSE Append(pr.keys, key),
     col |-> [c \in Keys(pr.col) \cup {key} |->
                IF c = key
                THEN Append(IF key \in Keys(pr.col) THEN pr.col[key] ELSE <<>>, value)
                ELSE pr.col[c]]]

\* for param, value in trial.params.items(): ...
RECURSIVE AppendParams(_, _, _)
AppendParams(pr, params, items) ==
    IF items = <<>> THEN pr
    ELSE AppendParams(AppendTo(pr, Head(items), params[Head(items)]), params, Tail(items))

\* for i, trial in enumerate(top_trials): ..., from position i on
RECURSIVE ParamRanges(_, _, _)
ParamRanges(top_trials, i, pr) ==
    IF i > Len(top_trials) THEN pr
    ELSE LET trial == top_trials[i]
             numbered == AppendTo(AppendTo(pr, "trial_number", PyInt(trial.number)),
                                  "best_trials", PyInt(i))
         IN ParamRanges(top_trials, i + 1, AppendParams(numbered, trial.params, Items(trial.params)))

\* pd.DataFrame(param_ranges) takes only lists of one length
SameLength(pr) == \A c, d \in Keys(pr.col) : Len(pr.col[c]) = Len(pr.col[d])
DataFrame(pr) == [columns |-> pr.keys, col |-> pr.col]

\* Python's < on two values: numbers by value, strings by their characters
StrOrder == <<"1", "adam", "x">>
StrIndex(s) == CHOOSE i \in DOMAIN StrOrder : StrOrder[i] = s
Comparable(a, b) == IsNumber(a) = IsNumber(b)
PyLess(a, b) == IF IsNumber(a) THEN a.n < b.n ELSE StrIndex(a.s) < StrIndex(b.s)

\* a min that takes the first value of the list
FirstValue(values) == values[1]

\* min(values) and max(values) keep the first of the smallest, of the largest
RECURSIVE Min(_)
Min(values) ==
    IF Len(values) = 1 THEN values[1]
    ELSE LET m == Min(SubSeq(values, 1, Len(values) - 1))
         IN IF PyLess(values[Len(values)], m) THEN values[Len(values)] ELSE m

RECURSIVE Max(_)
Max(values) ==
    IF Len(values) = 1 THEN values[1]
    ELSE LET m == Max(SubSeq(values, 1, Len(values) - 1))
         IN IF PyLess(m, values[Len(values)]) THEN values[Len(values)] ELSE m

\* min() and max() raise on an empty list and on values that do not compare
AllComparable(values) == \A i, j \in DOMAIN values : Comparable(values[i], values[j])

\* rows for every column, trial_number too
EveryKey(pr) == pr.keys

\* the columns that get a row of param_min_max_df: if param != 'trial_number'
RowKeys(pr) == SelectSeq(pr.keys, LAMBDA param : param # "trial_number")

\* data: one {'Parameter', 'Min', 'Max'} row per column of RowKeys
MinMaxRows(pr) ==
    [r \in DOMAIN RowKeys(pr) |->
        [Parameter |-> RowKeys(pr)[r],
         Min |-> Min(pr.col[RowKeys(pr)[r]]),
         Max |-> Max(pr.col[RowKeys(pr)[r]])]]

NoTables == [best_trial_df |-> DataFrame(NewParamRanges), param_min_max_df |-> <<>>]

\* the whole of _get_top_trials_param_ranges: what it raises, or the two tables it returns
GetTopTrialsParamRanges(trials, percent) ==
    IF ExceptSkipped(trials) = <<>>
    THEN [raised |-> Exception("ValueError", "All trials have skipped."), tables |-> NoTables]
    ELSE LET param_ranges == ParamRanges(TopTrials(trials, percent), 1, NewParamRanges) IN
         IF ~SameLength(param_ranges)
         THEN [raised |-> Exception("ValueError", "All arrays must be of the same length"),
               tables |-> NoTables]
         ELSE IF \E c \in Range(RowKeys(param_ranges)) : param_ranges.col[c] = <<>>
         THEN [raised |-> Exception("ValueError", "min() arg is an empty sequence"),
               tables |-> NoTables]
         ELSE IF \E c \in Range(RowKeys(param_ranges)) : ~AllComparable(param_ranges.col[c])
         THEN [raised |-> Exception("TypeError", "'<' not supported between instances"),
               tables |-> NoTables]
         ELSE [raised |-> NoError,
               tables |-> [best_trial_df |-> DataFrame(param_ranges),
                           param_min_max_df |-> MinMaxRows(param_ranges)]]

----------------------------------------------------------------------------
(* OptunaFinetuning: __init__ and _validate_input *)

\* OptunaPydantic.validate_between_0_100 accepts value
ValidateBetween0And100(value) == value >= 0 /\ value <= 100

\* try: OptunaPydantic(**kwargs) / except ValidationError as e: print(e)
ValidationPrinted(percent) ==
    IF ValidateBetween0And100(percent)
    THEN NoError
    ELSE Exception("ValidationError", "top_percent_trials")

\* what _validate_input raises after the pydantic check, in the order of its tests
ValidateInputRaises(cfg, n_metrics, n_directions) ==
    IF n_metrics # n_directions
    THEN Exception("ValueError", "metrics_to_optimize and directions differ in length")
    ELSE IF ~Truthy(cfg.OPTUNA_PARAMS)
    THEN Exception("ValueError", "OPTUNA_PARAMS")
    ELSE IF ~Truthy(cfg.OPTUNA_FROZEN_PARAMS)
    THEN Exception("Warning", "OPTUNA_FROZEN_PARAMS")
    ELSE NoError

\* a wrapper that leaves the counter as it found it
NotCounted(counter) == counter

\* timer_and_counter, line 32: self.trials_counter += 1
Counted(counter) == counter + 1

\* the threads the engine may call _objective on
Threads == {1, 2}

\* a thread that has not called _objective: where the call is at, what the trial answers,
\* the wrapper's locals (the numbers printed, the mapping, the result, the counter as
\* loaded by +=, the exception on its way out)
Idle == [at |-> "idle", answers |-> <<>>, printed |-> <<>>, params |-> EmptyDict,
         result |-> <<>>, read |-> 0, raised |-> NoError]

\* no _objective call is in flight on either thread
NoCalls == [t \in Threads |-> Idle]

\* the results the user's objective hands to the engine, one number per direction
ObjectiveValues == {<<1>>, <<2>>}

\* the metric lists a caller passes, by their length; directions has one entry
MetricCounts == {1, 2}

Init ==
    /\ pc = "new"
    /\ config \in ConfigPool
    /\ metrics_to_optimize \in MetricCounts
    /\ directions = 1
    /\ n_trials \in 1..MaxTrials
    /\ top_percent_trials \in TopPercents
    /\ optuna_hyperparameters = <<>>
    /\ frozen_hyperparameters = EmptyDict
    /\ trials_counter = 0
    /\ printed = NoError
    /\ study_trials = <<>>
    /\ optuna_parameters = EmptyDict
    /\ raised = NoError
    /\ tables = NoTables
    /\ reported = <<>>
    /\ skipped = {}
    /\ runs = 0
    /\ counter_at_call = 0
    /\ calls = NoCalls
    /\ hooks = 0

\* OptunaFinetuning(...): the constructor returns a tuner
Construct ==
    /\ pc = "new"
    /\ ValidateInputRaises(config, metrics_to_optimize, directions) = NoError
    /\ printed' = ValidationPrinted(top_percent_trials)
    /\ optuna_hyperparameters' = config.OPTUNA_PARAMS.value
    /\ frozen_hyperparameters' = config.OPTUNA_FROZEN_PARAMS.value
    /\ pc' = "ready"
    /\ UNCHANGED <<config, metrics_to_optimize, directions, n_trials, top_percent_trials,
                   trials_counter, study_trials, optuna_parameters, raised, tables,
                   reported, skipped, runs, counter_at_call, threading>>

\* OptunaFinetuning(...): _validate_input raises and there is no tuner
ConstructRaises ==
    /\ pc = "new"
    /\ ValidateInputRaises(config, metrics_to_optimize, directions) # NoError
    /\ printed' = ValidationPrinted(top_percent_trials)
    /\ raised' = ValidateInputRaises(config, metrics_to_optimize, directions)
    /\ optuna_hyperparameters' =
          IF metrics_to_optimize = directions /\ Truthy(config.OPTUNA_PARAMS)
          THEN config.OPTUNA_PARAMS.value ELSE optuna_hyperparameters
    /\ pc' = "construct_raised"
    /\ UNCHANGED <<config, metrics_to_optimize, directions, n_trials, top_percent_trials,
                   frozen_hyperparameters, trials_counter, study_trials, optuna_parameters,
                   tables, reported, skipped, runs, counter_at_call, threading>>

----------------------------------------------------------------------------
(* __call__: the study, one _objective call per trial, then the summary *)

\* optuna.create_study(...); study.optimize(...) begins
Call ==
    /\ pc = "ready"
    /\ pc' = "optimizing"
    /\ study_trials' = <<>>
    /\ skipped' = {}
    /\ runs' = runs + 1
    /\ counter_at_call' = trials_counter
    /\ UNCHANGED <<config, metrics_to_optimize, directions, n_trials, top_percent_trials,
                   optuna_hyperparameters, frozen_hyperparameters, trials_counter, printed,
                   optuna_parameters, raised, tables, reported, threading>>

\* one _objective call that returns the objective's result
Objective ==
    /\ pc = "optimizing"
    /\ Len(study_trials) < n_trials
    /\ \E answers \in TrialAnswers(optuna_hyperparameters), values \in ObjectiveValues :
        LET r == SetTrialParams(optuna_hyperparameters, frozen_hyperparameters, answers) IN
        /\ r.raised = NoError
        /\ optuna_parameters' = r.params
        /\ study_trials' = Append(study_trials,
              Trial(Len(study_trials),
                    SuggestedParams(optuna_hyperparameters, answers, r.asked), values))
    /\ reported' = <<trials_counter, trials_counter>>
    /\ trials_counter' = Counted(trials_counter)
    /\ UNCHANGED <<pc, config, metrics_to_optimize, directions, n_trials, top_percent_trials,
                   optuna_hyperparameters, frozen_hyperparameters, printed, raised, tables,
                   skipped, runs, counter_at_call, threading>>

\* one _objective call that _set_trial_params leaves with an exception: the engine marks
\* the trial failed and study.optimize and __call__ pass the exception on
ObjectiveRaises ==
    /\ pc = "optimizing"
    /\ Len(study_trials) < n_trials
    /\ \E answers \in TrialAnswers(optuna_hyperparameters) :
        LET r == SetTrialParams(optuna_hyperparameters, frozen_hyperparameters, answers) IN
        /\ r.raised # NoError
        /\ raised' = r.raised
        /\ study_trials' = Append(study_trials,
              Trial(Len(study_trials),
                    SuggestedParams(optuna_hyperparameters, answers, r.asked), <<>>))
    /\ pc' = "call_raised"
    /\ reported' = <<trials_counter>>
    /\ UNCHANGED <<config, metrics_to_optimize, directions, n_trials, top_percent_trials,
                   optuna_hyperparameters, frozen_hyperparameters, trials_counter, printed,
                   optuna_parameters, tables, skipped, runs, counter_at_call, threading>>

\* the user's objective left by a KeyboardInterrupt
Interrupted == [raised |-> Exception("KeyboardInterrupt", ""), result |-> <<>>]

\* a decorator without the except clause: the interrupt leaves the call
LetsInterruptThrough(outcome) == outcome

\* skip_trial_on_keypress_n around func: a KeyboardInterrupt becomes the result None
\* (no values); anything else passes
SkipTrialOnKeypressN(outcome) ==
    IF outcome.raised.type = "KeyboardInterrupt"
    THEN [raised |-> NoError, result |-> <<>>]
    ELSE outcome

\* one _objective call whose objective is interrupted: skip_trial_on_keypress_n turns the
\* KeyboardInterrupt into the result None, timer_and_counter counts the call, and the
\* engine records a trial without values
ObjectiveSkipped ==
    /\ pc = "optimizing"
    /\ Len(study_trials) < n_trials
    /\ \E answers \in TrialAnswers(optuna_hyperparameters) :
        LET r == SetTrialParams(optuna_hyperparameters, frozen_hyperparameters, answers) IN
        /\ r.raised = NoError
        /\ optuna_parameters' = r.params
        /\ study_trials' = Append(study_trials,
              Trial(Len(study_trials),
                    SuggestedParams(optuna_hyperparameters, answers, r.asked), <<>>))
    /\ LET outcome == SkipTrialOnKeypressN(Interrupted) IN
        IF outcome.raised = NoError
        THEN /\ reported' = <<trials_counter, trials_counter>>
             /\ trials_counter' = Counted(trials_counter)
             /\ skipped' = skipped \cup {Len(study_trials)}
             /\ UNCHANGED <<pc, raised>>
        ELSE /\ reported' = <<trials_counter>>
             /\ raised' = outcome.raised
             /\ pc' = "call_raised"
             /\ UNCHANGED <<trials_counter, skipped>>
    /\ UNCHANGED <<config, metrics_to_optimize, directions, n_trials, top_percent_trials,
                   optuna_hyperparameters, frozen_hyperparameters, printed, tables,
                   runs, counter_at_call, threading>>

\* after study.optimize: the counter is reset and the top trials are summarised; the
\* printing and the plot drawn from the returned table change nothing of the tuner
Summarise ==
    /\ pc = "optimizing"
    /\ Len(study_trials) = n_trials
    /\ trials_counter' = 0
    /\ LET r == GetTopTrialsParamRanges(study_trials, top_percent_trials) IN
        /\ raised' = r.raised
        /\ tables' = r.tables
        /\ pc' = IF r.raised = NoError THEN "done" ELSE "call_raised"
    /\ UNCHANGED <<config, metrics_to_optimize, directions, n_trials, top_percent_trials,
                   optuna_hyperparameters, frozen_hyperparameters, printed, study_trials,
                   optuna_parameters, reported, skipped, runs, counter_at_call, threading>>

Next ==
    \/ Construct
    \/ ConstructRaises
    \/ Call
    \/ Objective
    \/ ObjectiveRaises
    \/ ObjectiveSkipped
    \/ Summarise

Spec == Init /\ [][Next]_vars

----------------------------------------------------------------------------
(* _get_top_trials_param_ranges on any trial list *)

\* the parameters and the result vectors of the sample trials: two metrics, and parameter
\* mappings with different key sets
TrialParamsPool ==
    { [lr |-> PyInt(1), bs |-> PyInt(2)],
      [lr |-> PyInt(2), bs |-> PyInt(1)],
      [lr |-> PyInt(3)] }

TrialValuesPool == { <<>>, <<1, 1>>, <<1, 2>>, <<2, 1>> }

\* the trial lists of up to MaxListed trials, numbered by the engine from 0
TrialLists ==
    UNION { { [i \in 1..len |-> Trial(i - 1, ps[i], vs[i])] :
                ps \in [1..len -> TrialParamsPool], vs \in [1..len -> TrialValuesPool] }
            : len \in 0..MaxListed }

\* the configuration of the tuner the method is called on
AggregateConfig ==
    [OPTUNA_PARAMS |->
        Present(<< ParamSpec("lr", "suggest_int", <<PyInt(1), PyInt(3)>>, [step |-> PyInt(1)]),
                   ParamSpec("bs", "suggest_int", <<PyInt(1), PyInt(2)>>, [step |-> PyInt(1)]) >>),
     OPTUNA_FROZEN_PARAMS |-> Present([seed |-> PyInt(42)])]

\* a constructed tuner (the constructor lets every top_percent_trials through) and the
\* trial list of a study with two metrics
InitAggregate ==
    /\ pc = "aggregate"
    /\ study_trials \in TrialLists
    /\ top_percent_trials \in TopPercents
    /\ config = AggregateConfig
    /\ metrics_to_optimize = 2
    /\ directions = 2
    /\ n_trials = Len(study_trials)
    /\ optuna_hyperparameters = AggregateConfig.OPTUNA_PARAMS.value
    /\ frozen_hyperparameters = AggregateConfig.OPTUNA_FROZEN_PARAMS.value
    /\ trials_counter = 0
    /\ printed = ValidationPrinted(top_percent_trials)
    /\ optuna_parameters = EmptyDict
    /\ raised = NoError
    /\ tables = NoTables
    /\ reported = <<>>
    /\ skipped = {}
    /\ runs = 0
    /\ counter_at_call = 0
    /\ calls = NoCalls
    /\ hooks = 0

\* self._get_top_trials_param_ranges(trials)
Aggregate ==
    /\ pc = "aggregate"
    /\ LET r == GetTopTrialsParamRanges(study_trials, top_percent_trials) IN
        /\ raised' = r.raised
        /\ tables' = r.tables
        /\ pc' = IF r.raised = NoError THEN "aggregated" ELSE "aggregate_raised"
    /\ UNCHANGED <<config, metrics_to_optimize, directions, n_trials, top_percent_trials,
                   optuna_hyperparameters, frozen_hyperparameters, trials_counter, printed,
                   study_trials, optuna_parameters, reported, skipped, runs, counter_at_call,
                   threading>>

NextAggregate == Aggregate

SpecAggregate == InitAggregate /\ [][NextAggregate]_vars

----------------------------------------------------------------------------
(* _objective called for two trials at once, statement by statement *)

\* everything but the counter and what only concurrent calls use
sequential == <<pc, config, metrics_to_optimize, directions, n_trials, top_percent_trials,
                optuna_hyperparameters, frozen_hyperparameters, printed, study_trials,
                optuna_parameters, raised, tables, reported, skipped, runs, counter_at_call>>

\* the configurations the constructor accepts without a message
AcceptedConfigs ==
    { c \in ConfigPool : ValidateInputRaises(c, 1, 1) = NoError }

\* a constructed tuner whose study is running, no _objective call in flight
InitConcurrent ==
    /\ pc = "optimizing"
    /\ config \in AcceptedConfigs
    /\ metrics_to_optimize = 1
    /\ directions = 1
    /\ n_trials = Cardinality(Threads)
    /\ top_percent_trials = 100
    /\ optuna_hyperparameters = config.OPTUNA_PARAMS.value
    /\ frozen_hyperparameters = config.OPTUNA_FROZEN_PARAMS.value
    /\ trials_counter = 0
    /\ printed = NoError
    /\ study_trials = <<>>
    /\ optuna_parameters = EmptyDict
    /\ raised = NoError
    /\ tables = NoTables
    /\ reported = <<>>
    /\ skipped = {}
    /\ runs = 1
    /\ counter_at_call = 0
    /\ calls = NoCalls
    /\ hooks = 0

\* timer_and_counter, line 21: the engine calls _objective with a trial of its own; the
\* wrapper prints self.trials_counter
ThreadStart(t) ==
    /\ calls[t].at = "idle"
    /\ \E answers \in TrialAnswers(optuna_hyperparameters) :
        calls' = [calls EXCEPT ![t].at = "started", ![t].answers = answers,
                               ![t].printed = <<trials_counter>>]
    /\ UNCHANGED <<sequential, trials_counter, hooks>>

\* skip_trial_on_keypress_n, line 58: keyboard.on_press(on_keypress)
ThreadHook(t) ==
    /\ calls[t].at = "started"
    /\ calls' = [calls EXCEPT ![t].at = "hooked"]
    /\ hooks' = hooks + 1
    /\ UNCHANGED <<sequential, trials_counter>>

\* skip_trial_on_keypress_n, lines 60-66: _set_trial_params, then the objective returns its
\* values or is interrupted (the result None)
ThreadObjective(t) ==
    /\ calls[t].at = "hooked"
    /\ LET r == SetTrialParams(optuna_hyperparameters, frozen_hyperparameters,
                               calls[t].answers) IN
        /\ r.raised = NoError
        /\ \E outcome \in { [raised |-> NoError, result |-> v] : v \in ObjectiveValues }
                          \cup {Interrupted} :
            calls' = [calls EXCEPT ![t].at = "ran", ![t].params = r.params,
                                   ![t].result = SkipTrialOnKeypressN(outcome).result]
    /\ UNCHANGED <<sequential, trials_counter, hooks>>

\* skip_trial_on_keypress_n, lines 60-62: _set_trial_params raises
ThreadObjectiveRaises(t) ==
    /\ calls[t].at = "hooked"
    /\ LET r == SetTrialParams(optuna_hyperparameters, frozen_hyperparameters,
                               calls[t].answers) IN
        /\ r.raised # NoError
        /\ calls' = [calls EXCEPT ![t].at = "raising", ![t].raised = r.raised]
    /\ UNCHANGED <<sequential, trials_counter, hooks>>

\* skip_trial_on_keypress_n, lines 67-69: finally keyboard.unhook_all(), which removes the
\* handlers of every call; an exception then leaves timer_and_counter uncounted
ThreadUnhook(t) ==
    /\ calls[t].at \in {"ran", "raising"}
    /\ calls' = [calls EXCEPT ![t].at = IF calls[t].at = "ran" THEN "unhooked" ELSE "raised"]
    /\ hooks' = 0
    /\ UNCHANGED <<sequential, trials_counter>>

\* timer_and_counter, line 29: the wrapper prints self.trials_counter again
ThreadReport(t) ==
    /\ calls[t].at = "unhooked"
    /\ calls' = [calls EXCEPT ![t].at = "reported",
                               ![t].printed = Append(calls[t].printed, trials_counter)]
    /\ UNCHANGED <<sequential, trials_counter, hooks>>

\* timer_and_counter, line 32: self.trials_counter += 1 loads the attribute ...
ThreadLoadCounter(t) ==
    /\ calls[t].at = "reported"
    /\ calls' = [calls EXCEPT ![t].at = "loaded", ![t].read = trials_counter]
    /\ UNCHANGED <<sequential, trials_counter, hooks>>

\* ... and stores what it loaded plus one; the call returns its result
ThreadStoreCounter(t) ==
    /\ calls[t].at = "loaded"
    /\ trials_counter' = Counted(calls[t].read)
    /\ calls' = [calls EXCEPT ![t].at = "returned"]
    /\ UNCHANGED <<sequential, hooks>>

NextConcurrent ==
    \E t \in Threads :
        \/ ThreadStart(t)
        \/ ThreadHook(t)
        \/ ThreadObjective(t)
        \/ ThreadObjectiveRaises(t)
        \/ ThreadUnhook(t)
        \/ ThreadReport(t)
        \/ ThreadLoadCounter(t)
        \/ ThreadStoreCounter(t)

SpecConcurrent == InitConcurrent /\ [][NextConcurrent]_vars

----------------------------------------------------------------------------
(* __call__ more than once on the same tuner *)

\* accepted configurations with a single hyperparameter
RerunConfigs == { c \in AcceptedConfigs : Len(c.OPTUNA_PARAMS.value) = 1 }

\* the arguments of a tuner that is called again
InitRerun ==
    /\ pc = "new"
    /\ config \in RerunConfigs
    /\ metrics_to_optimize = 1
    /\ directions = 1
    /\ n_trials \in 1..MaxTrials
    /\ top_percent_trials = 100
    /\ optuna_hyperparameters = <<>>
    /\ frozen_hyperparameters = EmptyDict
    /\ trials_counter = 0
    /\ printed = NoError
    /\ study_trials = <<>>
    /\ optuna_parameters = EmptyDict
    /\ raised = NoError
    /\ tables = NoTables
    /\ reported = <<>>
    /\ skipped = {}
    /\ runs = 0
    /\ counter_at_call = 0
    /\ calls = NoCalls
    /\ hooks = 0

\* tuner() after an earlier tuner() has returned or raised: a new study, the counter as
\* the earlier call left it
CallAgain ==
    /\ pc \in {"done", "call_raised"}
    /\ runs < MaxRuns
    /\ pc' = "optimizing"
    /\ study_trials' = <<>>
    /\ skipped' = {}
    /\ reported' = <<>>
    /\ raised' = NoError
    /\ runs' = runs + 1
    /\ counter_at_call' = trials_counter
    /\ UNCHANGED <<config, metrics_to_optimize, directions, n_trials, top_percent_trials,
                   optuna_hyperparameters, frozen_hyperparameters, trials_counter, printed,
                   optuna_parameters, tables, threading>>

NextRerun ==
    \/ Construct
    \/ Call
    \/ Objective
    \/ ObjectiveRaises
    \/ ObjectiveSkipped
    \/ Summarise
    \/ CallAgain

SpecRerun == InitRerun /\ [][NextRerun]_vars

----------------------------------------------------------------------------
(* Claims about _set_trial_params and the constructor, under Spec *)

\* the last _objective call got a mapping back from _set_trial_params
Resolved == pc = "optimizing" /\ study_trials # <<>>
LastTrial == study_trials[Len(study_trials)]
SpecOnly(i) == optuna_hyperparameters[i].name \notin Keys(frozen_hyperparameters)

\* C1 as amended: the mapping _set_trial_params returns has exactly the spec names and the
\* frozen names as keys, every frozen name holds its frozen value, also where a spec has
\* the same name, and every spec-only key holds what the trial suggested for it, except
\* that a suggest_grid key holds the float the suggested string spells
C1_ResolveKeysAndValues ==
    Resolved =>
        /\ Keys(optuna_parameters) = Names(optuna_hyperparameters) \cup Keys(frozen_hyperparameters)
        /\ \A k \in Keys(frozen_hyperparameters) : optuna_parameters[k] = frozen_hyperparameters[k]
        /\ \A i \in DOMAIN optuna_hyperparameters :
              LET spec == optuna_hyperparameters[i]
                  got == optuna_parameters[spec.name]
                  suggested == LastTrial.params[spec.name]
              IN SpecOnly(i) =>
                    IF spec.suggest_type = "suggest_grid"
                    THEN /\ got.t = "float"
                         /\ suggested.t = "str"
                         /\ suggested.s \in {IntNumeral[got.n], FloatNumeral[got.n]}
                    ELSE got = suggested

\* C1, witness: a returned mapping in which one name is both sampled and frozen, and holds
\* the frozen value instead of the sampled one, beside a spec-only suggest_grid key
C1_Witness ==
    /\ Resolved
    /\ \E i, j \in DOMAIN optuna_hyperparameters :
          /\ ~SpecOnly(i)
          /\ SpecOnly(j)
          /\ optuna_hyperparameters[j].suggest_type = "suggest_grid"
          /\ optuna_parameters[optuna_hyperparameters[i].name] # LastTrial.params[optuna_hyperparameters[i].name]

\* C1 as stated: every spec-only key holds the very value the trial suggested for it
C1_Original ==
    Resolved =>
        /\ Keys(optuna_parameters) = Names(optuna_hyperparameters) \cup Keys(frozen_hyperparameters)
        /\ \A k \in Keys(frozen_hyperparameters) : optuna_parameters[k] = frozen_hyperparameters[k]
        /\ \A i \in DOMAIN optuna_hyperparameters :
              SpecOnly(i) =>
                 PyEq(optuna_parameters[optuna_hyperparameters[i].name],
                      LastTrial.params[optuna_hyperparameters[i].name])

\* a kind the code does not handle itself and the trial has no method for
Unrecognized(spec) == spec.suggest_type # "suggest_grid" /\ ~HasAttr(spec.suggest_type)

\* C5 as stated: once a trial has run on a spec list with an unrecognized kind,
\* _set_trial_params has failed with a ConfigurationError; nothing was returned and no
\* other failure surfaced
C5_UnknownKindIsConfigurationError ==
    (pc \in {"optimizing", "call_raised", "done"} /\ study_trials # <<>>
        /\ \E i \in DOMAIN optuna_hyperparameters : Unrecognized(optuna_hyperparameters[i]))
    => (pc = "call_raised" /\ raised.type = "ConfigurationError")

\* C6 as stated: with OPTUNA_PARAMS present, a missing or empty OPTUNA_FROZEN_PARAMS does
\* not abort the construction
C6_MissingFrozenOnlyWarns ==
    (pc # "new" /\ metrics_to_optimize = directions /\ Truthy(config.OPTUNA_PARAMS)
        /\ ~Truthy(config.OPTUNA_FROZEN_PARAMS))
    => pc # "construct_raised"

\* C7 as stated: no tuner exists, and no study runs, with a top_percent_trials outside
\* [0, 100]
C7_NoTunerWithInvalidPercent ==
    pc \in {"ready", "optimizing", "done", "call_raised"} =>
        (top_percent_trials >= 0 /\ top_percent_trials <= 100)

----------------------------------------------------------------------------
(* Claims about _get_top_trials_param_ranges, under SpecAggregate *)

\* the positions of the trials with a result, and what the call selects from them
CompletedAt == { k \in DOMAIN study_trials : study_trials[k].values # <<>> }
Selected == TopTrials(study_trials, top_percent_trials)
Returned == pc = "aggregated"
Called == pc \in {"aggregated", "aggregate_raised"}
TopTrialTable == tables.best_trial_df
ParamRangeTable == tables.param_min_max_df

\* a is greater than b in the lexicographic order of result vectors
LexGreater(a, b) ==
    \E i \in DOMAIN a :
        /\ \A j \in 1..(i - 1) : j \in DOMAIN b /\ a[j] = b[j]
        /\ (i \in DOMAIN b => a[i] > b[i])

\* the scenario of the specification: results [2.0], [], [5.0] for trials 1, 2, 3
ScenarioTrials ==
    << Trial(1, [lr |-> PyInt(1)], <<2>>), Trial(2, [lr |-> PyInt(1)], <<>>),
       Trial(3, [lr |-> PyInt(1)], <<5>>) >>

AllSkipped == Exception("ValueError", "All trials have skipped.")

\* C3: the call fails with the all-trials-skipped error, returning no tables, exactly
\* when no trial of its input has values
C3_AllSkippedExactly ==
    Called =>
        /\ (raised = AllSkipped) <=> (CompletedAt = {})
        /\ (CompletedAt = {}) => (pc = "aggregate_raised" /\ tables = NoTables)

\* C3, witness: a call on a list of several trials, none with values, has failed
C3_Witness == Called /\ Len(study_trials) >= 2 /\ CompletedAt = {} /\ raised = AllSkipped

\* C4 as stated: with top_percent 0 and a completed trial the call returns, and its table
\* has no rows
C4_ZeroPercentReturnsEmptyTable ==
    (Called /\ top_percent_trials = 0 /\ CompletedAt # {}) =>
        (Returned /\ TopTrialTable.col["trial_number"] = <<>>)

\* the Parameter entries of the rows of the range table
RowParameters == { ParamRangeTable[r].Parameter : r \in DOMAIN ParamRangeTable }

\* C8 as amended: the range table has exactly one row for every column of the trial
\* table other than trial_number, best_trials included, and no row for trial_number
C8_OneRowPerColumnButTrialNumber ==
    Returned =>
        /\ RowParameters = Range(TopTrialTable.columns) \ {"trial_number"}
        /\ \A r, q \in DOMAIN ParamRangeTable :
              ParamRangeTable[r].Parameter = ParamRangeTable[q].Parameter => r = q

\* C8, witness: returned tables with the columns trial_number, best_trials, lr and bs
C8_Witness ==
    /\ Returned
    /\ Range(TopTrialTable.columns) = {"trial_number", "best_trials", "lr", "bs"}
    /\ Len(ParamRangeTable) = 3

\* C8 as stated: one row for every column of the trial table, trial_number included
C8_Original ==
    Returned =>
        /\ RowParameters = Range(TopTrialTable.columns)
        /\ \A r, q \in DOMAIN ParamRangeTable :
              ParamRangeTable[r].Parameter = ParamRangeTable[q].Parameter => r = q

\* C9: in returned tables every row's min and max are values of that row's column of the
\* trial table, and every value of the column lies between them
C9_MinMaxBoundTheColumn ==
    Returned =>
        \A r \in DOMAIN ParamRangeTable :
            LET row == ParamRangeTable[r]
                column == TopTrialTable.col[row.Parameter]
            IN /\ row.Min \in Range(column)
               /\ row.Max \in Range(column)
               /\ \A i \in DOMAIN column : row.Min.n <= column[i].n /\ column[i].n <= row.Max.n

\* C9, witness: a returned row whose column holds its largest value first and has
\* min below max
C9_Witness ==
    /\ Returned
    /\ \E r \in DOMAIN ParamRangeTable :
          /\ ParamRangeTable[r].Parameter = "lr"
          /\ ParamRangeTable[r].Min.n < ParamRangeTable[r].Max.n
          /\ TopTrialTable.col["lr"][1] = ParamRangeTable[r].Max

\* the selected trials do not all have the same parameter names
Heterogeneous == \E i, j \in DOMAIN Selected : Keys(Selected[i].params) # Keys(Selected[j].params)

\* C10 as stated: when the selected trials have different parameter key sets the call
\* returns a trial table with one row per selected trial
C10_HeterogeneousParamsReturn ==
    (Called /\ CompletedAt # {} /\ Heterogeneous) =>
        (Returned /\ Len(TopTrialTable.col["trial_number"]) = Len(Selected))

----------------------------------------------------------------------------
(* Claims about interrupts and the trial counter *)

\* the study can take its next _objective call
NextTrialEnabled == ENABLED (Objective \/ ObjectiveRaises \/ ObjectiveSkipped)

\* C11: an interrupt during a trial's objective never leaves the _objective call: the call
\* returns None, so the skipped trial has no values; the study is never ended by a skipped
\* trial but can take every remaining trial of its n_trials, and a study that reaches its
\* summary has made n_trials calls, whichever trials were skipped
C11_InterruptSkipsOnlyTheTrial ==
    /\ raised.type # "KeyboardInterrupt"
    /\ \A k \in skipped : k < Len(study_trials) /\ study_trials[k + 1].values = <<>>
    /\ (pc = "call_raised" /\ Len(study_trials) < n_trials) =>
           (Len(study_trials) - 1) \notin skipped
    /\ (pc = "optimizing" /\ skipped # {}) =>
           /\ trials_counter = counter_at_call + Len(study_trials)
           /\ Len(study_trials) < n_trials => NextTrialEnabled
    /\ pc = "done" => Len(study_trials) = n_trials

\* C11, witness: a finished study of two trials whose first trial was skipped and whose
\* second trial has a result
C11_Witness ==
    /\ pc = "done"
    /\ n_trials = 2
    /\ skipped = {0}
    /\ Len(study_trials) = 2
    /\ study_trials[2].values # <<>>

\* C12: a configuration whose OPTUNA_PARAMS is the empty sequence (its frozen parameters
\* present and not empty, as many metrics as directions) is accepted by the constructor
C12_EmptyParamsAccepted ==
    ( /\ pc # "new"
      /\ config.OPTUNA_PARAMS.present
      /\ config.OPTUNA_PARAMS.value = <<>>
      /\ Truthy(config.OPTUNA_FROZEN_PARAMS)
      /\ metrics_to_optimize = directions
      /\ ValidateBetween0And100(top_percent_trials) ) =>
        /\ pc # "construct_raised"
        /\ raised = NoError

\* C13: when two _objective calls have both returned, however their statements
\* interleaved, each has produced the mapping _set_trial_params gives for its own trial and
\* the tuner is in the state that the two calls one after the other leave: the counter two
\* above where it stood, no key press handler registered
C13_InterleavingsMatchSequential ==
    (\A t \in Threads : calls[t].at = "returned") =>
        /\ \A t \in Threads :
              calls[t].params = SetTrialParams(optuna_hyperparameters, frozen_hyperparameters,
                                               calls[t].answers).params
        /\ trials_counter = counter_at_call + Cardinality(Threads)
        /\ hooks = 0

\* the i-th _objective call of the study has returned after printing i-1 twice, and the
\* counter stands at i
NumberedFromZero ==
    /\ trials_counter = Len(study_trials)
    /\ study_trials # <<>> =>
           reported = <<Len(study_trials) - 1, Len(study_trials) - 1>>

\* C14 as stated: in every study run the i-th _objective call reports i-1 at its start and
\* its end and leaves the counter at i
C14_Original == pc = "optimizing" => NumberedFromZero

\* C14, amended: the counter of a new tuner is 0; in a study run that found the counter at
\* 0 the i-th _objective call reports i-1 at its start and its end and every call that
\* returns, a skipped trial included, adds one, while a call that raises reports i-1 once
\* and adds nothing; the counter is 0 once study.optimize has returned, so the run after a
\* run that reached its summary numbers from 0
C14_CounterNumbersTrials ==
    /\ runs = 0 => trials_counter = 0
    /\ (pc = "optimizing" /\ counter_at_call = 0) => NumberedFromZero
    /\ (pc = "call_raised" /\ Len(reported) = 1 /\ counter_at_call = 0) =>
           /\ reported = <<Len(study_trials) - 1>>
           /\ trials_counter = Len(study_trials) - 1
    /\ pc = "done" => trials_counter = 0
    /\ (pc = "call_raised" /\ Len(reported) = 2) => trials_counter = 0
    /\ (pc = "optimizing" /\ runs = 2 /\ tables # NoTables) => counter_at_call = 0

\* C14, witness: the second run on a tuner whose first run returned its tables; its first
\* trial was skipped and its second call has reported 1
C14_Witness ==
    /\ pc = "optimizing"
    /\ runs = 2
    /\ tables # NoTables
    /\ skipped = {0}
    /\ reported = <<1, 1>>
    /\ trials_counter = 2

====
